---- MODULE Spec2Model ----
(***************************************************************************)
(* The two CSV tools of llm_researcher/tools/custom_tool.py                *)
(* (RawDataAccessTool and OptimizedCSVAnalysisTool) as a state machine     *)
(* over the file system they read (Spec), the REST layer of                *)
(* app/api/routes.py (ApiSpec), and the chat GUI of streamlit_chat.py over *)
(* the same knowledge directory (GuiSpec).                                 *)
(*                                                                         *)
(* A cell of a table is a record [t, n, s]: t is the kind of the value     *)
(* ("na" a missing value NaN/NaT, "num" a number n, "str" a text s,        *)
(* "date" a timestamp, n the day of the year 2015).  Productivities are    *)
(* held in tenths (9 is 0.9); every comparison the code makes on them is   *)
(* invariant under that scale.  Means and other statistics are kept exact, *)
(* as the fraction [num, den].                                             *)
(***************************************************************************)
EXTENDS Integers, Sequences, FiniteSets, TLC

VARIABLES
    files,  \* the file system: what is at each path of the knowledge directory
    call,   \* the tool call that has just returned (NoCall between calls)
    prev,   \* the table the call before it loaded
    now,    \* the clock datetime.utcnow() and datetime.now() read
    response,  \* the REST layer: the response to the latest request
    bodies,    \* the REST layer: the bodies each route has returned so far
    session_state,    \* the GUI: st.session_state
    uploaded_file,    \* the GUI: the file held by the uploader
    screen,           \* the GUI: what the latest run of the script drew
    rerun_requested,  \* the GUI: st.rerun() was called, the script is to run again
    run               \* the GUI: what the latest run of the script did
tool_vars == <<files, call, prev>>
api_vars == <<response, bodies>>
gui_vars == <<session_state, uploaded_file, screen, rerun_requested, run>>
vars == <<files, call, prev, now, response, bodies,
          session_state, uploaded_file, screen, rerun_requested, run>>

\* Longest small table the file may hold.
MaxRows == 2

\* df.head(50) in _get_sample_data.
SampleRows == 50
\* len(df) > 500 in _get_full_data.
FullDataLimit == 500

csv_path == "knowledge/garments_worker_productivity.csv"
other_path == "knowledge/notes.csv"
FileNames == {csv_path, other_path}

Range(s) == {s[i] : i \in 1..Len(s)}
Min2(a, b) == IF a < b THEN a ELSE b

-----------------------------------------------------------------------------
(* Cells *)

NA == [t |-> "na", n |-> 0, s |-> ""]
Num(v) == [t |-> "num", n |-> v, s |-> ""]
Str(v) == [t |-> "str", n |-> 0, s |-> v]
Date(d) == [t |-> "date", n |-> d, s |-> ""]

\* pd.isna(value)
isna(c) == c.t = "na"

\* The date texts the dataset files use, and the day of 2015 each one is.
DateTexts == {"1/1/2015", "1/3/2015", "2/2/2015"}
DayOfYear(s) ==
    CASE s = "1/1/2015" -> 1
      [] s = "1/3/2015" -> 3
      [] s = "2/2/2015" -> 33

\* .dt.month of a day of 2015.
MonthOf(d) ==
    IF d <= 31 THEN 1 ELSE IF d <= 59 THEN 2 ELSE IF d <= 90 THEN 3
    ELSE IF d <= 120 THEN 4 ELSE IF d <= 151 THEN 5 ELSE IF d <= 181 THEN 6
    ELSE IF d <= 212 THEN 7 ELSE IF d <= 243 THEN 8 ELSE IF d <= 273 THEN 9
    ELSE IF d <= 304 THEN 10 ELSE IF d <= 334 THEN 11 ELSE 12

\* .dt.day_name() of a day of 2015 (1 January 2015 was a Thursday).
DayNames == <<"Thursday", "Friday", "Saturday", "Sunday", "Monday", "Tuesday", "Wednesday">>
DayNameOf(d) == DayNames[((d - 1) % 7) + 1]

\* The order groupby('day_of_week') sorts its keys in.
SortedDayNames == <<"Friday", "Monday", "Saturday", "Sunday", "Thursday", "Tuesday", "Wednesday">>

\* str(Timestamp): the ISO date followed by the midnight time.
TimestampText(d) ==
    CASE d = 1 -> "2015-01-01 00:00:00"
      [] d = 3 -> "2015-01-03 00:00:00"
      [] d = 33 -> "2015-02-02 00:00:00"

\* Timestamp.strftime('%Y-%m-%d')
strftime(d) ==
    CASE d = 1 -> "2015-01-01"
      [] d = 3 -> "2015-01-03"
      [] d = 33 -> "2015-02-02"

\* str(value) of a cell that is not missing.
str(c) ==
    CASE c.t = "num" -> ToString(c.n)
      [] c.t = "str" -> c.s
      [] c.t = "date" -> TimestampText(c.n)
      [] OTHER -> "nan"

-----------------------------------------------------------------------------
(* Tables and files *)

\* The columns of the garments dataset the tools refer to, in file order.
AllColumns == <<"date", "quarter", "department", "team", "targeted_productivity",
                "smv", "over_time", "incentive", "idle_time",
                "no_of_style_change", "no_of_workers", "actual_productivity">>
\* The columns the specification's note lists.
ListedColumns == <<"date", "department", "team", "targeted_productivity",
                   "over_time", "incentive", "idle_time",
                   "no_of_style_change", "no_of_workers", "actual_productivity">>
NoDateColumns == <<"quarter", "department", "team", "targeted_productivity",
                   "smv", "over_time", "incentive", "idle_time",
                   "no_of_style_change", "no_of_workers", "actual_productivity">>
DateOnlyColumns == <<"date">>
ColumnVariants == {AllColumns, ListedColumns, NoDateColumns, DateOnlyColumns}

Row(d, q, dep, team, targ, smv, ot, inc, idle, style, workers, actual) ==
    [date |-> d, quarter |-> q, department |-> dep, team |-> team,
     targeted_productivity |-> targ, smv |-> smv, over_time |-> ot,
     incentive |-> inc, idle_time |-> idle, no_of_style_change |-> style,
     no_of_workers |-> workers, actual_productivity |-> actual]

RowA == Row(Str("1/1/2015"), Str("Quarter1"), Str("sewing"), Num(1), Num(8),
            Num(6), Num(7), Num(9), Num(0), Num(0), Num(9), Num(9))
RowB == Row(Str("2/2/2015"), Str("Quarter2"), Str("finishing"), Num(2), Num(8),
            Num(4), Num(1), Num(0), Num(0), Num(1), Num(8), Num(7))
RowC == Row(Str("1/3/2015"), Str("Quarter1"), Str("sewing"), Num(3), Num(8),
            Num(6), Num(7), Num(5), Num(2), Num(0), Num(6), Num(8))
\* A row whose date is missing.
RowNoDate == Row(NA, Str("Quarter1"), Str("sewing"), Num(1), Num(8),
                 Num(6), Num(7), Num(9), Num(0), Num(0), Num(9), Num(9))
\* A row whose department and measures are missing.
RowGaps == Row(Str("1/3/2015"), Str("Quarter1"), NA, Num(2), Num(8),
               NA, Num(7), NA, Num(0), Num(0), Num(8), NA)
\* A row whose date is not a date.
RowBadDate == Row(Str("yesterday"), Str("Quarter1"), Str("sewing"), Num(1), Num(8),
                  Num(6), Num(7), Num(9), Num(0), Num(0), Num(9), Num(9))

\* The row sequences the files are filled from; row i of a table is row
\* ((i - 1) mod length) + 1 of its pattern.
Patterns == {<<RowA, RowB, RowC>>, <<RowNoDate>>, <<RowGaps, RowA>>, <<RowBadDate, RowA>>}
CleanPattern == <<RowA, RowB, RowC>>

\* Five rows whose measures correlate with actual_productivity (9, 7, 8, 6,
\* 9) in every band: targeted_productivity 0.84, smv -0.77, over_time 0.34,
\* idle_time -0.41, no_of_workers 0.26, no_of_style_change -0.21,
\* incentive 0.03, and team -0.91.
CorrelationPattern ==
    << Row(Str("1/1/2015"), Str("Quarter1"), Str("sewing"), Num(1), Num(1),
           Num(0), Num(0), Num(0), Num(0), Num(0), Num(0), Num(9)),
       Row(Str("1/3/2015"), Str("Quarter1"), Str("finishing"), Num(2), Num(0),
           Num(0), Num(0), Num(0), Num(0), Num(0), Num(0), Num(7)),
       Row(Str("2/2/2015"), Str("Quarter2"), Str("sewing"), Num(1), Num(0),
           Num(0), Num(2), Num(1), Num(0), Num(0), Num(0), Num(8)),
       Row(Str("1/1/2015"), Str("Quarter1"), Str("finishing"), Num(2), Num(0),
           Num(1), Num(0), Num(2), Num(3), Num(1), Num(1), Num(6)),
       Row(Str("1/3/2015"), Str("Quarter1"), Str("sewing"), Num(1), Num(1),
           Num(0), Num(1), Num(3), Num(2), Num(1), Num(3), Num(9)) >>

Project(row, columns) == [c \in Range(columns) |-> row[c]]

MkTable(columns, n, pattern) ==
    [columns |-> columns,
     rows |-> [i \in 1..n |-> Project(pattern[((i - 1) % Len(pattern)) + 1], columns)]]

SmallTables ==
    {MkTable(cv, n, p) : cv \in ColumnVariants, n \in 0..MaxRows, p \in Patterns}
\* Tables at the two size limits of the raw-access tool.
LimitSizes == {SampleRows - 1, SampleRows, SampleRows + 1,
               FullDataLimit - 1, FullDataLimit, FullDataLimit + 1}
LimitTables == {MkTable(DateOnlyColumns, n, CleanPattern) : n \in LimitSizes}
\* A table with every band of correlation.
CorrelationTables == {MkTable(AllColumns, Len(CorrelationPattern), CorrelationPattern)}
Tables == SmallTables \cup LimitTables \cup CorrelationTables

\* A path of the file system: nothing there, something pd.read_csv raises
\* on (an empty file, a directory, bytes that do not parse), or a CSV.
Absent == [exists |-> FALSE, parses |-> FALSE, columns |-> <<>>, rows |-> <<>>]
Unreadable == [exists |-> TRUE, parses |-> FALSE, columns |-> <<>>, rows |-> <<>>]
CsvFile(t) == [exists |-> TRUE, parses |-> TRUE, columns |-> t.columns, rows |-> t.rows]
DatasetFiles == {Absent, Unreadable} \cup {CsvFile(t) : t \in Tables}
OtherFiles == {Absent, CsvFile(MkTable(AllColumns, 1, CleanPattern))}

-----------------------------------------------------------------------------
(* Exceptions and _load_data *)

Raise(type, msg) == [exc |-> TRUE, type |-> type, msg |-> msg]

\* os.path.exists(csv_path)
os_path_exists(fs, path) == fs[path].exists

\* pd.read_csv(csv_path): the table, or an exception.
read_csv(fs, path) ==
    IF ~fs[path].exists THEN Raise("FileNotFoundError", path)
    ELSE IF ~fs[path].parses THEN Raise("ParserError", path)
    ELSE [exc |-> FALSE, columns |-> fs[path].columns, rows |-> fs[path].rows]

\* pd.to_datetime of one cell: a missing cell is NaT, a known date text
\* its timestamp; anything else makes to_datetime raise.
DateParses(c) == isna(c) \/ (c.t = "str" /\ c.s \in DateTexts) \/ c.t = "date"
to_datetime(c) ==
    IF isna(c) THEN NA
    ELSE IF c.t = "date" THEN c
    ELSE Date(DayOfYear(c.s))

None == [isNone |-> TRUE, columns |-> <<>>, rows |-> <<>>]
DataFrame(columns, rows) == [isNone |-> FALSE, columns |-> columns, rows |-> rows]

\* _load_data of both tools (the two methods are the same text).
load_data(fs) ==
    IF os_path_exists(fs, csv_path)
    THEN LET r == read_csv(fs, csv_path) IN
         IF r.exc THEN None
         ELSE IF "date" \notin Range(r.columns) THEN None
         ELSE IF \E i \in 1..Len(r.rows) : ~DateParses(r.rows[i].date) THEN None
         ELSE DataFrame(r.columns,
                        [i \in 1..Len(r.rows) |->
                            [r.rows[i] EXCEPT !.date = to_datetime(@)]])
    ELSE None

-----------------------------------------------------------------------------
(* Series helpers (the pandas operations the handlers use) *)

\* len(df)
len(df) == Len(df.rows)

\* df[col] as the sequence of its cells; a column the table lacks is a KeyError,
\* which the handlers test with HasColumn before they read.
HasColumn(df, col) == col \in Range(df.columns)
Series(df, col) == [i \in 1..Len(df.rows) |-> df.rows[i][col]]

\* The cells that are not missing, in order.
dropna(series) == SelectSeq(series, LAMBDA c : ~isna(c))

\* .isnull().sum()
null_count(series) == Len(series) - Len(dropna(series))

\* The distinct values of a series that are not missing.
unique_values(series) == Range(dropna(series))
\* .nunique()
nunique(series) == Cardinality(unique_values(series))

\* How often a value occurs, and where it occurs first.
count_of(series, v) == Cardinality({i \in 1..Len(series) : series[i] = v})
first_index(series, v) == CHOOSE i \in 1..Len(series) :
                              series[i] = v /\ \A j \in 1..(i - 1) : series[j] # v

\* .value_counts(): the distinct values by falling count, equal counts in
\* order of first appearance.
ValueBefore(series, a, b) ==
    \/ count_of(series, a) > count_of(series, b)
    \/ (count_of(series, a) = count_of(series, b)
        /\ first_index(series, a) < first_index(series, b))
value_counts(series) ==
    LET vals == unique_values(series)
        rank(v) == 1 + Cardinality({w \in vals : ValueBefore(series, w, v)})
    IN [k \in 1..Cardinality(vals) |->
           LET v == CHOOSE w \in vals : rank(w) = k
           IN [value |-> v, count |-> count_of(series, v)]]

\* The first n elements of a sequence (Series.head, list slicing).
head(seq, n) == SubSeq(seq, 1, Min2(n, Len(seq)))

\* The dtype pandas gives a column: the date column is converted by
\* _load_data; a header-only file gives object columns; a text makes the
\* column object; missing values make a number column float64.
dtype(df, col) ==
    IF col = "date" THEN "datetime64[ns]"
    ELSE IF len(df) = 0 THEN "object"
    ELSE IF \E i \in 1..len(df) : df.rows[i][col].t = "str" THEN "object"
    ELSE IF \E i \in 1..len(df) : isna(df.rows[i][col]) THEN "float64"
    ELSE "int64"
is_numeric(df, col) == dtype(df, col) \in {"int64", "float64"}

\* The numbers of a numeric series, missing values skipped.
numbers(series) == LET s == dropna(series) IN [i \in 1..Len(s) |-> s[i].n]

RECURSIVE sum_seq(_)
sum_seq(ns) == IF ns = <<>> THEN 0 ELSE Head(ns) + sum_seq(Tail(ns))

\* .sum(), .min(), .max(), .mean() of a numeric series.  A minimum, a
\* maximum or a mean of nothing is NaN (the record NaNStat).
NaNStat == [nan |-> TRUE, num |-> 0, den |-> 1]
Stat(num, den) == [nan |-> FALSE, num |-> num, den |-> den]
series_sum(series) == sum_seq(numbers(series))
series_min(series) ==
    LET ns == numbers(series) IN
    IF ns = <<>> THEN NaNStat
    ELSE Stat(CHOOSE v \in Range(ns) : \A w \in Range(ns) : v <= w, 1)
series_max(series) ==
    LET ns == numbers(series) IN
    IF ns = <<>> THEN NaNStat
    ELSE Stat(CHOOSE v \in Range(ns) : \A w \in Range(ns) : v >= w, 1)
series_mean(series) ==
    LET ns == numbers(series) IN
    IF ns = <<>> THEN NaNStat ELSE Stat(sum_seq(ns), Len(ns))

\* The k-th smallest number of a sequence of numbers.
kth(ns, k) == CHOOSE v \in Range(ns) :
                  /\ Cardinality({i \in 1..Len(ns) : ns[i] < v}) < k
                  /\ Cardinality({i \in 1..Len(ns) : ns[i] <= v}) >= k
\* describe()['50%']: the middle number, or the mean of the two middle ones.
series_median(series) ==
    LET ns == numbers(series)
        n == Len(ns)
    IN IF n = 0 THEN NaNStat
       ELSE IF n % 2 = 1 THEN Stat(kth(ns, (n + 1) \div 2), 1)
       ELSE Stat(kth(ns, n \div 2) + kth(ns, (n \div 2) + 1), 2)
\* describe()['std'] squared: the sample variance, NaN below two numbers.
series_var(series) ==
    LET ns == numbers(series)
        n == Len(ns)
        sq == [i \in 1..n |-> ns[i] * ns[i]]
    IN IF n < 2 THEN NaNStat
       ELSE Stat(n * sum_seq(sq) - sum_seq(ns) * sum_seq(ns), n * (n - 1))

\* The earliest and latest timestamp of the date column, NaT (NA) when no
\* row has a date.
date_min(df) ==
    LET ds == dropna(Series(df, "date")) IN
    IF ds = <<>> THEN NA
    ELSE CHOOSE d \in Range(ds) : \A e \in Range(ds) : d.n <= e.n
date_max(df) ==
    LET ds == dropna(Series(df, "date")) IN
    IF ds = <<>> THEN NA
    ELSE CHOOSE d \in Range(ds) : \A e \in Range(ds) : d.n >= e.n

-----------------------------------------------------------------------------
(* RawDataAccessTool: the four handlers.  A handler returns the pair       *)
(* [out, df]: what it returns or raises, and the table it was given as it  *)
(* is when the handler is left.                                            *)

Returns(out, df) == [out |-> out, df |-> df]

\* One "Linha idx+1: v | v | ..." line of _get_sample_data / _get_full_data.
row_line(df, i) ==
    [label |-> (i - 1) + 1,
     cells |-> [k \in 1..Len(df.columns) |->
                  LET value == df.rows[i][df.columns[k]] IN
                  IF isna(value) THEN "N/A" ELSE str(value)]]

get_column_info(df) ==
    Returns([exc |-> FALSE, kind |-> "columns",
             n_columns |-> Len(df.columns), total |-> len(df),
             info |-> [k \in 1..Len(df.columns) |->
                LET col == df.columns[k]
                    s == Series(df, col)
                IN IF is_numeric(df, col)
                   THEN [col |-> col, dtype |-> dtype(df, col),
                         nulls |-> null_count(s), unique |-> nunique(s),
                         numeric |-> TRUE,
                         range |-> <<series_min(s), series_max(s)>>,
                         examples |-> <<>>]
                   ELSE [col |-> col, dtype |-> dtype(df, col),
                         nulls |-> null_count(s), unique |-> nunique(s),
                         numeric |-> FALSE,
                         range |-> <<NaNStat, NaNStat>>,
                         examples |-> [j \in 1..Len(head(value_counts(s), 3)) |->
                                          value_counts(s)[j].value]]]],
            df)

\* A variant that walks the whole table instead of sample_df.
get_sample_data_whole_table(df) ==
    Returns([exc |-> FALSE, kind |-> "sample", total |-> len(df),
             columns |-> df.columns,
             lines |-> [i \in 1..len(df) |-> row_line(df, i)]],
            df)

get_sample_data(df) ==
    LET sample_df == [df EXCEPT !.rows = head(df.rows, SampleRows)] IN
    Returns([exc |-> FALSE, kind |-> "sample", total |-> len(df),
             columns |-> df.columns,
             lines |-> [i \in 1..len(sample_df) |-> row_line(sample_df, i)]],
            df)

\* A variant whose size test is len(df) >= 500.
get_full_data_at_limit(df) ==
    IF len(df) >= FullDataLimit
    THEN Returns([exc |-> FALSE, kind |-> "full_warning", total |-> len(df)], df)
    ELSE Returns([exc |-> FALSE, kind |-> "full", total |-> len(df),
                  columns |-> df.columns,
                  lines |-> [i \in 1..len(df) |-> row_line(df, i)]],
                 df)

get_full_data(df) ==
    IF len(df) > FullDataLimit
    THEN Returns([exc |-> FALSE, kind |-> "full_warning", total |-> len(df)], df)
    ELSE Returns([exc |-> FALSE, kind |-> "full", total |-> len(df),
                  columns |-> df.columns,
                  lines |-> [i \in 1..len(df) |-> row_line(df, i)]],
                 df)

get_basic_summary(df) ==
    LET numeric_cols == SelectSeq(df.columns, LAMBDA c : is_numeric(df, c))
        categorical_cols == SelectSeq(df.columns, LAMBDA c : dtype(df, c) = "object")
    IN Returns([exc |-> FALSE, kind |-> "summary", total |-> len(df),
                n_columns |-> Len(df.columns),
                period |-> <<date_min(df), date_max(df)>>,
                numeric |-> [k \in 1..Len(numeric_cols) |->
                    LET s == Series(df, numeric_cols[k]) IN
                    [col |-> numeric_cols[k], mean |-> series_mean(s),
                     median |-> series_median(s), min |-> series_min(s),
                     max |-> series_max(s), var |-> series_var(s)]],
                categorical |-> [k \in 1..Len(SelectSeq(categorical_cols, LAMBDA c : c # "date")) |->
                    LET col == SelectSeq(categorical_cols, LAMBDA c : c # "date")[k] IN
                    [col |-> col, value_counts |-> value_counts(Series(df, col))]]],
               df)

-----------------------------------------------------------------------------
(* OptimizedCSVAnalysisTool: the five handlers *)

\* KeyError(key) of a missing column, and KeyError(message) of a selection
\* or aggregation that names the columns it misses.
KeyError(name) == Raise("KeyError", name)
KeyErrorMessage(msg) == Raise("KeyError: message", msg)

\* repr of a list of names: ['a', 'b']
RECURSIVE names_text(_)
names_text(names) ==
    IF Len(names) = 1 THEN "'" \o names[1] \o "'"
    ELSE "'" \o names[1] \o "', " \o names_text(Tail(names))
list_text(names) == "[" \o names_text(names) \o "]"

\* The texts of the files in the order Python sorts them (groupby sorts its keys).
SortedTexts == <<"Friday", "Monday", "Quarter1", "Quarter2", "Saturday", "Sunday",
                 "Thursday", "Tuesday", "Wednesday", "finishing", "sewing">>
TextRank(s) == CHOOSE k \in 1..Len(SortedTexts) : SortedTexts[k] = s
\* A cell's place in the sort order of its column.
SortKey(c) == IF c.t = "str" THEN TextRank(c.s) ELSE c.n

\* The keys of df.groupby(col): its distinct values, missing ones dropped,
\* in sorted order.
group_keys(df, col) ==
    LET vals == unique_values(Series(df, col))
        rank(v) == 1 + Cardinality({w \in vals : SortKey(w) < SortKey(v)})
    IN [k \in 1..Cardinality(vals) |-> CHOOSE v \in vals : rank(v) = k]

\* The cells of column col in the rows of one group.
group_series(df, by, key, col) ==
    LET idx == SelectSeq([i \in 1..len(df) |-> i], LAMBDA i : df.rows[i][by] = key)
    IN [k \in 1..Len(idx) |-> df.rows[idx[k]][col]]

\* a < b for two statistics that are numbers.
StatLess(a, b) == a.num * b.den < b.num * a.den

\* The grouped means of column col: one [key, mean] per group.
group_means(df, by, col) ==
    LET keys == group_keys(df, by) IN
    [k \in 1..Len(keys) |->
        [key |-> keys[k], mean |-> series_mean(group_series(df, by, keys[k], col))]]

\* Series.idxmax() / idxmin() of grouped means: the first key whose mean is
\* the largest (smallest) of those that are numbers.
HasNumber(means) == \E k \in 1..Len(means) : ~means[k].mean.nan
idxmax(means) ==
    LET k == CHOOSE k \in 1..Len(means) :
                 /\ ~means[k].mean.nan
                 /\ \A j \in 1..Len(means) :
                        means[j].mean.nan \/ ~StatLess(means[k].mean, means[j].mean)
                 /\ \A j \in 1..(k - 1) :
                        means[j].mean.nan \/ StatLess(means[j].mean, means[k].mean)
    IN means[k].key
idxmin(means) ==
    LET k == CHOOSE k \in 1..Len(means) :
                 /\ ~means[k].mean.nan
                 /\ \A j \in 1..Len(means) :
                        means[j].mean.nan \/ ~StatLess(means[j].mean, means[k].mean)
                 /\ \A j \in 1..(k - 1) :
                        means[j].mean.nan \/ StatLess(means[k].mean, means[j].mean)
    IN means[k].key

\* The first column of a list the table lacks ("" when it has them all),
\* and all the columns of the list it lacks.
FirstMissing(df, cols) ==
    IF \A k \in 1..Len(cols) : HasColumn(df, cols[k]) THEN ""
    ELSE cols[CHOOSE k \in 1..Len(cols) :
                 ~HasColumn(df, cols[k]) /\ \A j \in 1..(k - 1) : HasColumn(df, cols[j])]
Missing(df, cols) == SelectSeq(cols, LAMBDA c : ~HasColumn(df, c))

OverviewColumns == <<"actual_productivity", "targeted_productivity",
                     "department", "team", "no_of_workers">>

get_overview(df) ==
    IF isna(date_min(df))
    THEN Returns(Raise("ValueError", "NaTType does not support strftime"), df)
    ELSE IF FirstMissing(df, OverviewColumns) # ""
    THEN Returns(KeyError(FirstMissing(df, OverviewColumns)), df)
    ELSE Returns([exc |-> FALSE, kind |-> "overview",
                  total_records |-> len(df),
                  date_range |-> <<strftime(date_min(df).n), strftime(date_max(df).n)>>,
                  departments |-> value_counts(Series(df, "department")),
                  teams |-> nunique(Series(df, "team")),
                  total_workers |-> series_sum(Series(df, "no_of_workers")),
                  avg_productivity |-> series_mean(Series(df, "actual_productivity")),
                  avg_target |-> series_mean(Series(df, "targeted_productivity"))],
                 df)

\* The comparisons get_productivity_stats makes of a productivity p and
\* its target t; efficiency is p / t (inf for p > 0 = t, NaN for 0 / 0).
Compare(rel, p, t) ==
    CASE rel = "productivity > target" -> p > t
      [] rel = "productivity < target" -> p < t
      [] rel = "productivity == target" -> p = t
      [] rel = "efficiency > 1.1" -> IF t = 0 THEN p > 0 ELSE 10 * p > 11 * t
      [] rel = "efficiency < 0.9" -> t # 0 /\ 10 * p < 9 * t

\* (comparison).sum(): how many rows satisfy it; a comparison with a
\* missing value is False.
count_rows(df, rel) ==
    Cardinality({i \in 1..len(df) :
        LET p == df.rows[i].actual_productivity
            t == df.rows[i].targeted_productivity
        IN ~isna(p) /\ ~isna(t) /\ Compare(rel, p.n, t.n)})

\* describe()['25%'] and ['75%'], in quarters: linear interpolation
\* between the two numbers around position (n - 1) * q / 4.
series_quartile(series, q) ==
    LET ns == numbers(series)
        n == Len(ns)
        pos == (n - 1) * q
        lo == (pos \div 4) + 1
        r == pos % 4
    IN IF n = 0 THEN NaNStat
       ELSE IF r = 0 THEN Stat(4 * kth(ns, lo), 4)
       ELSE Stat(4 * kth(ns, lo) + r * (kth(ns, lo + 1) - kth(ns, lo)), 4)

get_productivity_stats(df) ==
    IF FirstMissing(df, <<"actual_productivity", "targeted_productivity">>) # ""
    THEN Returns(KeyError(FirstMissing(df, <<"actual_productivity", "targeted_productivity">>)), df)
    ELSE IF len(df) = 0
    \* describe() of an empty object column has no 'min' entry.
    THEN Returns(KeyError("min"), df)
    ELSE LET productivity == Series(df, "actual_productivity") IN
         Returns([exc |-> FALSE, kind |-> "productivity_stats",
                  total |-> len(df),
                  above_target |-> count_rows(df, "productivity > target"),
                  below_target |-> count_rows(df, "productivity < target"),
                  at_target |-> count_rows(df, "productivity == target"),
                  min |-> series_min(productivity),
                  q25 |-> series_quartile(productivity, 1),
                  median |-> series_median(productivity),
                  mean |-> series_mean(productivity),
                  q75 |-> series_quartile(productivity, 3),
                  max |-> series_max(productivity),
                  var |-> series_var(productivity),
                  high_performers |-> count_rows(df, "efficiency > 1.1"),
                  low_performers |-> count_rows(df, "efficiency < 0.9")],
                 df)

\* dept.upper()
upper(s) ==
    CASE s = "sewing" -> "SEWING"
      [] s = "finishing" -> "FINISHING"
      [] OTHER -> s

DepartmentColumns == <<"actual_productivity", "targeted_productivity",
                       "no_of_workers", "over_time", "idle_time">>

get_department_analysis(df) ==
    IF ~HasColumn(df, "department") THEN Returns(KeyError("department"), df)
    ELSE IF Missing(df, DepartmentColumns) # <<>>
    THEN Returns(KeyErrorMessage("Column(s) " \o list_text(Missing(df, DepartmentColumns))
                                 \o " do not exist"), df)
    ELSE LET depts == group_keys(df, "department")
             col(d, c) == group_series(df, "department", d, c)
         IN Returns([exc |-> FALSE, kind |-> "department_analysis",
                     results |-> [k \in 1..Len(depts) |->
                        [dept |-> upper(depts[k].s),
                         records |-> Len(dropna(col(depts[k], "actual_productivity"))),
                         workers |-> series_sum(col(depts[k], "no_of_workers")),
                         avg_prod |-> series_mean(col(depts[k], "actual_productivity")),
                         avg_target |-> series_mean(col(depts[k], "targeted_productivity")),
                         overtime |-> series_mean(col(depts[k], "over_time")),
                         idle |-> series_mean(col(depts[k], "idle_time"))]]],
                    df)

\* df[name] = values: the column is added to the table (or, when the table
\* has one of that name, overwritten); values holds one cell per row.
assign(df, name, values) ==
    [df EXCEPT
        !.columns = IF HasColumn(df, name) THEN @ ELSE Append(@, name),
        !.rows = [i \in 1..Len(@) |->
                    [c \in (DOMAIN @[i]) \cup {name} |->
                        IF c = name THEN values[i] ELSE @[i][c]]]]

\* df['date'].dt.month and df['date'].dt.day_name()
dt_month(series) ==
    [i \in 1..Len(series) |-> IF isna(series[i]) THEN NA ELSE Num(MonthOf(series[i].n))]
dt_day_name(series) ==
    [i \in 1..Len(series) |-> IF isna(series[i]) THEN NA ELSE Str(DayNameOf(series[i].n))]

get_time_trends(df) ==
    LET df1 == assign(df, "month", dt_month(Series(df, "date")))
        df2 == assign(df1, "day_of_week", dt_day_name(Series(df1, "date")))
    IN IF ~HasColumn(df2, "actual_productivity")
       THEN Returns(KeyErrorMessage("Column not found: actual_productivity"), df2)
       ELSE IF ~HasColumn(df2, "quarter")
       THEN Returns(KeyError("quarter"), df2)
       ELSE LET monthly_prod == group_means(df2, "month", "actual_productivity")
                daily_prod == group_means(df2, "day_of_week", "actual_productivity")
                quarter_prod == group_means(df2, "quarter", "actual_productivity")
            IN IF ~HasNumber(monthly_prod)
               THEN Returns(Raise("ValueError", "attempt to get argmax of an empty sequence"), df2)
               ELSE Returns([exc |-> FALSE, kind |-> "time_trends",
                             quarter_prod |-> quarter_prod,
                             best_month |-> idxmax(monthly_prod),
                             worst_month |-> idxmin(monthly_prod),
                             best_day |-> idxmax(daily_prod),
                             worst_day |-> idxmin(daily_prod),
                             daily_prod |-> daily_prod],
                            df2)

\* A variant that also correlates the wip column of the garments dataset.
numerical_cols_with_wip ==
    <<"actual_productivity", "targeted_productivity", "smv", "wip", "over_time",
      "idle_time", "no_of_workers", "no_of_style_change", "incentive">>

numerical_cols == <<"actual_productivity", "targeted_productivity", "smv", "over_time",
                    "idle_time", "no_of_workers", "no_of_style_change", "incentive">>

\* The Pearson correlation of two columns over the rows where neither is
\* missing, as the three integers it is made of:
\*   corr = cov / sqrt(vx * vy),  NaN when vx * vy = 0.
corr(df, a, b) ==
    LET idx == SelectSeq([i \in 1..len(df) |-> i],
                         LAMBDA i : ~isna(df.rows[i][a]) /\ ~isna(df.rows[i][b]))
        n == Len(idx)
        x == [k \in 1..n |-> df.rows[idx[k]][a].n]
        y == [k \in 1..n |-> df.rows[idx[k]][b].n]
        sx == sum_seq(x)
        sy == sum_seq(y)
        cov == n * sum_seq([k \in 1..n |-> x[k] * y[k]]) - sx * sy
        vx == n * sum_seq([k \in 1..n |-> x[k] * x[k]]) - sx * sx
        vy == n * sum_seq([k \in 1..n |-> y[k] * y[k]]) - sy * sy
    IN [nan |-> (vx * vy = 0), cov |-> cov, vv |-> vx * vy]

\* A variant that compares corr itself, not its absolute value.
AbsAbove_signed(c, k) == ~c.nan /\ c.cov > 0 /\ 100 * c.cov * c.cov > k * k * c.vv

\* abs(corr) > k / 10
AbsAbove(c, k) == ~c.nan /\ 100 * c.cov * c.cov > k * k * c.vv

\* The entries of the correlation report, in the order of numerical_cols
\* (the order sort_values gives the listing is not part of the entries).
get_correlation_analysis(df) ==
    IF Missing(df, numerical_cols) = numerical_cols
    THEN Returns(KeyErrorMessage("None of [Index(" \o list_text(numerical_cols)
                                 \o ", dtype='object')] are in the [columns]"), df)
    ELSE IF Missing(df, numerical_cols) # <<>>
    THEN Returns(KeyErrorMessage(list_text(Missing(df, numerical_cols)) \o " not in index"), df)
    ELSE LET c(var) == corr(df, var, "actual_productivity")
             listed == SelectSeq(numerical_cols, LAMBDA var :
                           var # "actual_productivity" /\ AbsAbove(c(var), 1))
         IN Returns([exc |-> FALSE, kind |-> "correlation_analysis",
                     strong_correlations |-> [k \in 1..Len(listed) |->
                        [var |-> listed[k],
                         direction |-> IF c(listed[k]).cov > 0 THEN "positiva" ELSE "negativa",
                         strength |-> IF AbsAbove(c(listed[k]), 5) THEN "forte"
                                      ELSE IF AbsAbove(c(listed[k]), 3) THEN "moderada"
                                      ELSE "fraca"]]],
                    df)

-----------------------------------------------------------------------------
(* _run of the two tools *)

\* str(e): a KeyError prints the repr of its argument, a text in single
\* quotes, or in double quotes when the text holds a single quote.
exception_text(e) ==
    IF e.type = "KeyError" THEN "'" \o e.msg \o "'"
    ELSE IF e.type = "KeyError: message"
    THEN IF e.msg = "Column not found: actual_productivity"
         THEN "'" \o e.msg \o "'"
         ELSE "\"" \o e.msg \o "\""
    ELSE e.msg

\* The texts of the messages are written without their accents.
LoadErrorMessage ==
    [exc |-> FALSE, kind |-> "load_error",
     text |-> "Erro: Nao foi possivel carregar o dataset de produtividade."]
ErrorMessage(prefix, e) ==
    [exc |-> FALSE, kind |-> "error", prefix |-> prefix, msg |-> exception_text(e)]

\* What a call did: how it ended ("returned" a text or "raised"), the text,
\* the handlers it ran, and the table _load_data gave it, before the
\* handler ran and after.
CallRecord(tool, arg, outcome, result, ran, df_in, df_out) ==
    [tool |-> tool, arg |-> arg, outcome |-> outcome, result |-> result,
     ran |-> ran, df_in |-> df_in, df_out |-> df_out]
NoCall == CallRecord("none", "", "none", [exc |-> FALSE, kind |-> "none"], <<>>, None, None)

\* A variant that gives an empty DataFrame where _load_data gives None.
load_data_empty_frame(fs) ==
    IF load_data(fs).isNone THEN DataFrame(<<>>, <<>>) ELSE load_data(fs)

RawDataAccessTool_load_data(fs) == load_data(fs)

\* A variant with the handlers of 'full' and 'summary' exchanged.
RawDataAccessTool_dispatch_swapped(data_format) ==
    IF data_format = "columns" THEN "_get_column_info"
    ELSE IF data_format = "sample" THEN "_get_sample_data"
    ELSE IF data_format = "full" THEN "_get_basic_summary"
    ELSE IF data_format = "summary" THEN "_get_full_data"
    ELSE "_get_sample_data"

\* The if/elif chain of RawDataAccessTool._run: the handler a data_format reaches.
RawDataAccessTool_dispatch(data_format) ==
    IF data_format = "columns" THEN "_get_column_info"
    ELSE IF data_format = "sample" THEN "_get_sample_data"
    ELSE IF data_format = "full" THEN "_get_full_data"
    ELSE IF data_format = "summary" THEN "_get_basic_summary"
    ELSE "_get_sample_data"

RawDataAccessTool_handler(h, df) ==
    CASE h = "_get_column_info" -> get_column_info(df)
      [] h = "_get_sample_data" -> get_sample_data(df)
      [] h = "_get_full_data" -> get_full_data(df)
      [] h = "_get_basic_summary" -> get_basic_summary(df)

RawDataAccessTool_run(fs, data_format) ==
    LET df == RawDataAccessTool_load_data(fs) IN
    IF df.isNone
    THEN CallRecord("raw", data_format, "returned", LoadErrorMessage, <<>>, df, df)
    ELSE LET h == RawDataAccessTool_dispatch(data_format)
             r == RawDataAccessTool_handler(h, df)
         IN IF r.out.exc
            THEN CallRecord("raw", data_format, "returned",
                            ErrorMessage("Erro ao acessar dados: ", r.out), <<h>>, df, r.df)
            ELSE CallRecord("raw", data_format, "returned", r.out, <<h>>, df, r.df)

\* A variant that keeps the table of the call before and reads the file
\* only when there is none.
load_data_cached(fs) == IF prev.isNone THEN load_data(fs) ELSE prev

OptimizedCSVAnalysisTool_load_data(fs) == load_data(fs)

\* A variant whose else branch runs the productivity report.
OptimizedCSVAnalysisTool_dispatch_other_default(analysis_type) ==
    IF analysis_type = "overview" THEN "_get_overview"
    ELSE IF analysis_type = "productivity_stats" THEN "_get_productivity_stats"
    ELSE IF analysis_type = "department_analysis" THEN "_get_department_analysis"
    ELSE IF analysis_type = "time_trends" THEN "_get_time_trends"
    ELSE IF analysis_type = "correlation_analysis" THEN "_get_correlation_analysis"
    ELSE "_get_productivity_stats"

\* The if/elif chain of OptimizedCSVAnalysisTool._run.
OptimizedCSVAnalysisTool_dispatch(analysis_type) ==
    IF analysis_type = "overview" THEN "_get_overview"
    ELSE IF analysis_type = "productivity_stats" THEN "_get_productivity_stats"
    ELSE IF analysis_type = "department_analysis" THEN "_get_department_analysis"
    ELSE IF analysis_type = "time_trends" THEN "_get_time_trends"
    ELSE IF analysis_type = "correlation_analysis" THEN "_get_correlation_analysis"
    ELSE "_get_overview"

OptimizedCSVAnalysisTool_handler(h, df) ==
    CASE h = "_get_overview" -> get_overview(df)
      [] h = "_get_productivity_stats" -> get_productivity_stats(df)
      [] h = "_get_department_analysis" -> get_department_analysis(df)
      [] h = "_get_time_trends" -> get_time_trends(df)
      [] h = "_get_correlation_analysis" -> get_correlation_analysis(df)

\* A variant without the try/except around the dispatch: a handler's
\* exception leaves _run.
OptimizedCSVAnalysisTool_run_no_except(fs, analysis_type) ==
    LET df == OptimizedCSVAnalysisTool_load_data(fs) IN
    IF df.isNone
    THEN CallRecord("analysis", analysis_type, "returned", LoadErrorMessage, <<>>, df, df)
    ELSE LET h == OptimizedCSVAnalysisTool_dispatch(analysis_type)
             r == OptimizedCSVAnalysisTool_handler(h, df)
         IN IF r.out.exc
            THEN CallRecord("analysis", analysis_type, "raised", r.out, <<h>>, df, r.df)
            ELSE CallRecord("analysis", analysis_type, "returned", r.out, <<h>>, df, r.df)

OptimizedCSVAnalysisTool_run(fs, analysis_type) ==
    LET df == OptimizedCSVAnalysisTool_load_data(fs) IN
    IF df.isNone
    THEN CallRecord("analysis", analysis_type, "returned", LoadErrorMessage, <<>>, df, df)
    ELSE LET h == OptimizedCSVAnalysisTool_dispatch(analysis_type)
             r == OptimizedCSVAnalysisTool_handler(h, df)
         IN IF r.out.exc
            THEN CallRecord("analysis", analysis_type, "returned",
                            ErrorMessage("Erro na analise: ", r.out), <<h>>, df, r.df)
            ELSE CallRecord("analysis", analysis_type, "returned", r.out, <<h>>, df, r.df)

\* What the files are after _load_data and a handler have run: the code
\* asks os.path.exists and pd.read_csv and opens nothing for writing.
files_after_run_cache_written(fs) == [fs EXCEPT ![other_path] = fs[csv_path]]

files_after_run(fs) == fs

-----------------------------------------------------------------------------
(* The REST layer of app/api/routes.py *)

\* Latest value of the clock.
MaxClock == 3

\* datetime.isoformat() of the clock's value, seconds after midnight.
isoformat(t) == "2025-01-01T00:00:0" \o ToString(t)

HTTP_200_OK == 200
JSONResponse(status_code, body) == [status_code |-> status_code, body |-> body]

root(t) ==
    JSONResponse(HTTP_200_OK,
                 [message |-> "LLM API esta funcionando!", status |-> "healthy",
                  timestamp |-> isoformat(t), version |-> "1.0.0"])

health_check(t) ==
    JSONResponse(HTTP_200_OK,
                 [status |-> "healthy", service |-> "LLM API",
                  timestamp |-> isoformat(t), uptime |-> "running"])

\* A variant that stamps the list with the time of the call.
list_models_timestamped ==
    JSONResponse(HTTP_200_OK,
                 [models |-> << [name |-> "gpt-3.5-turbo", provider |-> "openai",
                                 status |-> "available"],
                                [name |-> "claude-3", provider |-> "anthropic",
                                 status |-> "available"] >>,
                  total |-> 2, timestamp |-> isoformat(now)])

list_models ==
    JSONResponse(HTTP_200_OK,
                 [models |-> << [name |-> "gpt-3.5-turbo", provider |-> "openai",
                                 status |-> "available"],
                                [name |-> "claude-3", provider |-> "anthropic",
                                 status |-> "available"] >>,
                  total |-> 2])

chat_with_llm ==
    JSONResponse(HTTP_200_OK,
                 [message |-> "Chat endpoint - Em desenvolvimento",
                  status |-> "not_implemented"])

\* The routes the two routers register, as <<method, path>>.
Routes == {<<"GET", "/">>, <<"GET", "/health">>,
           <<"GET", "/llm/models">>, <<"POST", "/llm/chat">>}

\* The endpoint of a route, called at time t.
endpoint(route, t) ==
    CASE route = <<"GET", "/">> -> root(t)
      [] route = <<"GET", "/health">> -> health_check(t)
      [] route = <<"GET", "/llm/models">> -> list_models
      [] route = <<"POST", "/llm/chat">> -> chat_with_llm

NoResponse == [route |-> <<>>, at |-> 0, status_code |-> 0, body |-> [none |-> TRUE]]

ApiStart ==
    /\ response = NoResponse
    /\ bodies = [route \in Routes |-> {}]

\* A request to one of the routes is answered.
Request ==
    /\ \E route \in Routes :
         LET r == endpoint(route, now) IN
         /\ response' = [route |-> route, at |-> now,
                         status_code |-> r.status_code, body |-> r.body]
         /\ bodies' = [bodies EXCEPT ![route] = @ \cup {r.body}]
    /\ UNCHANGED <<tool_vars, now, gui_vars>>

\* Time passes.
Tick ==
    /\ now < MaxClock
    /\ now' = now + 1
    /\ UNCHANGED <<tool_vars, api_vars, gui_vars>>

-----------------------------------------------------------------------------
(* The chat GUI of streamlit_chat.py.  Streamlit runs the script from top   *)
(* to bottom on every interaction; st.rerun() ends the run at once and      *)
(* asks for another.  A run is one step.  The knowledge directory of the    *)
(* GUI is taken to be the one the tools read (the script is started in its  *)
(* own directory).  The page the script calls 'Relatório' is written       *)
(* "Relatorio".                                                             *)

\* Longest chat history.
MaxMessages == 4

PyNone == "None"

\* The CSV files of the knowledge directory: knowledge_dir.glob("*.csv").
glob_csv(fs) == {path \in FileNames : fs[path].exists}

path_of(name) == "knowledge/" \o name
name_of(path) == IF path = csv_path THEN "garments_worker_productivity.csv" ELSE "notes.csv"

\* What the user can put in the uploader, and the uploader left empty.
UploadNames == {"garments_worker_productivity.csv", "notes.csv"}
UploadData == {CsvFile(MkTable(AllColumns, 1, CleanPattern)),
               CsvFile(MkTable(AllColumns, 2, CleanPattern))}
UploadedFiles ==
    {[name |-> n, data |-> d] : n \in UploadNames, d \in UploadData}
    \ {[name |-> "garments_worker_productivity.csv",
         data |-> CsvFile(MkTable(AllColumns, 2, CleanPattern))]}
NoUpload == [name |-> "", data |-> Absent]

\* What can be at a path of the knowledge directory while the GUI runs.
KnowledgeFiles == {Absent} \cup UploadData

\* datetime.now().strftime("%Y-%m-%d %H:%M:%S")
now_text(t) == "2025-01-01 00:00:0" \o ToString(t)

\* get_current_csv_info: the name of the first file glob gives (first is
\* any of them: the order is the directory's), None when there is none.
get_current_csv_info(fs, first) ==
    IF glob_csv(fs) # {} THEN name_of(first) ELSE PyNone

\* How save_uploaded_csv can fail: mkdir raises; unlink raises after the
\* files of removed are gone; open raises; write raises on the opened file.
SaveFaults(fs) ==
    {[at |-> "none", removed |-> glob_csv(fs)], [at |-> "mkdir", removed |-> {}],
     [at |-> "open", removed |-> glob_csv(fs)], [at |-> "write", removed |-> glob_csv(fs)]}
    \cup {[at |-> "unlink", removed |-> r] : r \in (SUBSET glob_csv(fs)) \ {glob_csv(fs)}}

\* A variant that leaves the CSV files it finds in place.
save_uploaded_csv_keep_existing(fs, uploaded, fault) ==
    LET file_path == path_of(uploaded.name)
    IN IF fault.at = "none"
       THEN [ok |-> TRUE, files |-> [fs EXCEPT ![file_path] = uploaded.data]]
       ELSE IF fault.at = "write"
       THEN [ok |-> FALSE, files |-> [fs EXCEPT ![file_path] = Unreadable]]
       ELSE [ok |-> FALSE, files |-> fs]

save_uploaded_csv(fs, uploaded, fault) ==
    LET unlinked == [path \in FileNames |->
                        IF path \in fault.removed THEN Absent ELSE fs[path]]
        file_path == path_of(uploaded.name)
    IN CASE fault.at = "mkdir" -> [ok |-> FALSE, files |-> fs]
         [] fault.at = "unlink" -> [ok |-> FALSE, files |-> unlinked]
         [] fault.at = "open" -> [ok |-> FALSE, files |-> unlinked]
         [] fault.at = "write" ->
              [ok |-> FALSE, files |-> [unlinked EXCEPT ![file_path] = Unreadable]]
         [] fault.at = "none" ->
              [ok |-> TRUE, files |-> [unlinked EXCEPT ![file_path] = uploaded.data]]

\* LlmResearcher(): a new object, other than the one held.
LlmResearcher(held) == IF held = "LlmResearcher@1" THEN "LlmResearcher@2" ELSE "LlmResearcher@1"

\* A variant that builds a crew on every call.
initialize_crew_every_call(ss, constructs) ==
    IF constructs
    THEN [result |-> TRUE,
          session_state |-> [ss EXCEPT !.crew_instance = LlmResearcher(ss.crew_instance)]]
    ELSE [result |-> FALSE, session_state |-> ss]

\* initialize_crew; constructs says whether LlmResearcher() returns or raises.
initialize_crew(ss, constructs) ==
    IF ss.crew_instance = PyNone
    THEN IF constructs
         THEN [result |-> TRUE,
               session_state |-> [ss EXCEPT !.crew_instance = LlmResearcher(ss.crew_instance)]]
         ELSE [result |-> FALSE, session_state |-> ss]
    ELSE [result |-> TRUE, session_state |-> ss]

SuccessText == "Seu relatorio foi gerado com sucesso!"
AnalysisErrorText(e) == "Erro ao executar a analise: " \o e
InitErrorText == "Desculpe, houve um erro ao processar sua solicitacao."

\* A variant that marks the report as generated before the kickoff.
run_crew_analysis_marks_first(ss, topic, kickoff, t) ==
    IF ss.crew_instance = PyNone
    THEN [response |-> AnalysisErrorText("'NoneType' object has no attribute 'crew'"),
          session_state |-> ss]
    ELSE IF kickoff = "returns"
    THEN [response |-> SuccessText,
          session_state |-> [ss EXCEPT !.report_generated = TRUE,
                                       !.last_report_time = now_text(t)]]
    ELSE [response |-> AnalysisErrorText(kickoff),
          session_state |-> [ss EXCEPT !.report_generated = TRUE]]

\* run_crew_analysis; kickoff is "returns" or the text of the exception
\* crew().kickoff raises.
run_crew_analysis(ss, topic, kickoff, t) ==
    IF ss.crew_instance = PyNone
    THEN [response |-> AnalysisErrorText("'NoneType' object has no attribute 'crew'"),
          session_state |-> ss]
    ELSE IF kickoff = "returns"
    THEN [response |-> SuccessText,
          session_state |-> [ss EXCEPT !.report_generated = TRUE,
                                       !.last_report_time = now_text(t)]]
    ELSE [response |-> AnalysisErrorText(kickoff), session_state |-> ss]

Message(role, content, t) == [role |-> role, content |-> content, timestamp |-> now_text(t)]

\* What a run leaves on the screen: the page shown ("chat": the
\* conversation and the form; "blocked": the no-CSV notice of the chat
\* page; "report"; "none": the run ended in st.rerun()), whether the Chat
\* button is enabled, the CSV the sidebar names, and whether the report
\* page has its refresh button.
Sidebar(chat_enabled, csv_name) == [chat_enabled |-> chat_enabled, csv_name |-> csv_name]
Screen(page, sidebar, refresh_button) ==
    [page |-> page, chat_enabled |-> sidebar.chat_enabled, csv_name |-> sidebar.csv_name,
     refresh_button |-> refresh_button]
NoScreen == Screen("none", Sidebar(FALSE, PyNone), FALSE)

\* What a run did: the widget that started it, what became of a save, the
\* calls of initialize_crew (result and the instance held on return), the
\* kickoff and the instance it was made on, and csv_available of line 703.
RunRecord(trigger, csv_available, saved, init_calls, kickoff, kickoff_on) ==
    [trigger |-> trigger, csv_available |-> csv_available, saved |-> saved,
     init_calls |-> init_calls, kickoff |-> kickoff, kickoff_on |-> kickoff_on]
NoRun == RunRecord("none", FALSE, "none", <<>>, "none", PyNone)
InitCall(r) == [result |-> r.result, instance |-> r.session_state.crew_instance]

\* The end of a run: the session state, the files, the screen, whether
\* st.rerun() was called, and the record of the run.
RunEnd(ss, fs, scr, rerun, rec) ==
    [session_state |-> ss, files |-> fs, screen |-> scr, rerun |-> rerun, run |-> rec]

\* The inputs of a run the script does not decide: pressed, whether the
\* button of the trigger returns True; fault, of save_uploaded_csv; first,
\* the file glob gives first; constructs and constructs_again, whether
\* LlmResearcher() returns in the calls of lines 579 and 622; kickoff,
\* "returns" or the text of its exception; user_input; html, whether
\* report.html is there.
RunInputs(pressed, fault, first, constructs, constructs_again, kickoff, user_input, html) ==
    [pressed |-> pressed, fault |-> fault, first |-> first, constructs |-> constructs,
     constructs_again |-> constructs_again, kickoff |-> kickoff,
     user_input |-> user_input, html |-> html]

\* A variant of the submit handling that answers only when the crew is there.
submit_without_error_reply(ss, init_calls, trigger, csv_available, e, t) ==
    LET user_message == Message("user", e.user_input, t)
        ss1 == [ss EXCEPT !.messages = Append(@, user_message)]
        init == initialize_crew(ss1, e.constructs_again)
        ss2 == init.session_state
        calls == Append(init_calls, InitCall(init))
    IN IF init.result
       THEN LET r == run_crew_analysis(ss2, e.user_input, e.kickoff, t)
                ss3 == [r.session_state EXCEPT
                          !.messages = Append(@, Message("assistant", r.response, t))]
            IN [session_state |-> ss3,
                run |-> RunRecord(trigger, csv_available, "none", calls,
                                  IF e.kickoff = "returns" THEN "returned" ELSE "raised",
                                  ss2.crew_instance)]
       ELSE [session_state |-> ss2,
             run |-> RunRecord(trigger, csv_available, "none", calls, "none", PyNone)]

\* show_chat_page, lines 608-641: the form was submitted with an input.
submit(ss, init_calls, trigger, csv_available, e, t) ==
    LET user_message == Message("user", e.user_input, t)
        ss1 == [ss EXCEPT !.messages = Append(@, user_message)]
        init == initialize_crew(ss1, e.constructs_again)
        ss2 == init.session_state
        calls == Append(init_calls, InitCall(init))
    IN IF init.result
       THEN LET r == run_crew_analysis(ss2, e.user_input, e.kickoff, t)
                ss3 == [r.session_state EXCEPT
                          !.messages = Append(@, Message("assistant", r.response, t))]
            IN [session_state |-> ss3,
                run |-> RunRecord(trigger, csv_available, "none", calls,
                                  IF e.kickoff = "returns" THEN "returned" ELSE "raised",
                                  ss2.crew_instance)]
       ELSE [session_state |->
                [ss2 EXCEPT !.messages = Append(@, Message("assistant", InitErrorText, t))],
             run |-> RunRecord(trigger, csv_available, "none", calls, "none", PyNone)]

\* show_chat_page
show_chat_page(ss, fs, sidebar, trigger, csv_available, saved, e, t) ==
    LET csv_info == get_current_csv_info(fs, e.first) IN
    IF csv_info = PyNone
    THEN RunEnd(ss, fs, Screen("blocked", sidebar, FALSE), FALSE,
                RunRecord(trigger, csv_available, saved, <<>>, "none", PyNone))
    ELSE LET init == initialize_crew(ss, e.constructs)
             ss1 == init.session_state
             calls == <<InitCall(init)>>
         IN IF trigger = "submit" /\ e.pressed /\ e.user_input # ""
            THEN LET s == submit(ss1, calls, trigger, csv_available, e, t)
                 IN RunEnd(s.session_state, fs, NoScreen, TRUE, s.run)
            ELSE RunEnd(ss1, fs, Screen("chat", sidebar, FALSE), FALSE,
                        RunRecord(trigger, csv_available, saved, calls, "none", PyNone))

\* show_report_page
show_report_page(ss, fs, sidebar, trigger, csv_available, saved, e) ==
    IF trigger = "refresh" /\ e.pressed /\ e.html
    THEN RunEnd(ss, fs, NoScreen, TRUE,
                RunRecord(trigger, csv_available, saved, <<>>, "none", PyNone))
    ELSE RunEnd(ss, fs, Screen("report", sidebar, e.html),
                FALSE, RunRecord(trigger, csv_available, saved, <<>>, "none", PyNone))

\* A variant of main without the forced change of page of lines 780-782.
main_without_forced_page(ss, fs, uploaded, trigger, e, t) ==
    LET csv_available == get_current_csv_info(fs, e.first) # PyNone
        sidebar == Sidebar(csv_available, get_current_csv_info(fs, e.first))
        rec(saved) == RunRecord(trigger, csv_available, saved, <<>>, "none", PyNone)
        save == IF trigger = "save" /\ e.pressed /\ uploaded # NoUpload
                THEN save_uploaded_csv(fs, uploaded, e.fault)
                ELSE [ok |-> FALSE, files |-> fs]
        saved == IF trigger = "save" /\ e.pressed /\ uploaded # NoUpload
                 THEN (IF save.ok THEN "ok" ELSE "failed") ELSE "none"
    IN IF trigger = "chat" /\ e.pressed
       THEN RunEnd([ss EXCEPT !.current_page = "Chat"], fs, NoScreen, TRUE, rec("none"))
       ELSE IF trigger = "report" /\ e.pressed
       THEN RunEnd([ss EXCEPT !.current_page = "Relatorio"], fs, NoScreen, TRUE, rec("none"))
       ELSE IF saved = "ok"
       THEN RunEnd(ss, save.files, NoScreen, TRUE, rec(saved))
       ELSE IF ss.current_page = "Chat" /\ trigger = "clear" /\ e.pressed
       THEN RunEnd([ss EXCEPT !.messages = <<>>], save.files, NoScreen, TRUE, rec(saved))
       ELSE IF ss.current_page = "Chat"
       THEN show_chat_page(ss, save.files, sidebar, trigger, csv_available, saved, e, t)
       ELSE show_report_page(ss, save.files, sidebar, trigger, csv_available, saved, e)

\* main: one run of the script, started by the widget trigger.
main(ss, fs, uploaded, trigger, e, t) ==
    LET csv_available == get_current_csv_info(fs, e.first) # PyNone
        sidebar == Sidebar(csv_available, get_current_csv_info(fs, e.first))
        rec(saved) == RunRecord(trigger, csv_available, saved, <<>>, "none", PyNone)
        save == IF trigger = "save" /\ e.pressed /\ uploaded # NoUpload
                THEN save_uploaded_csv(fs, uploaded, e.fault)
                ELSE [ok |-> FALSE, files |-> fs]
        saved == IF trigger = "save" /\ e.pressed /\ uploaded # NoUpload
                 THEN (IF save.ok THEN "ok" ELSE "failed") ELSE "none"
    IN IF trigger = "chat" /\ e.pressed
       THEN RunEnd([ss EXCEPT !.current_page = "Chat"], fs, NoScreen, TRUE, rec("none"))
       ELSE IF trigger = "report" /\ e.pressed
       THEN RunEnd([ss EXCEPT !.current_page = "Relatorio"], fs, NoScreen, TRUE, rec("none"))
       ELSE IF saved = "ok"
       THEN RunEnd(ss, save.files, NoScreen, TRUE, rec(saved))
       ELSE IF ss.current_page = "Chat" /\ trigger = "clear" /\ e.pressed
       THEN RunEnd([ss EXCEPT !.messages = <<>>], save.files, NoScreen, TRUE, rec(saved))
       ELSE IF ss.current_page = "Chat" /\ ~csv_available
       THEN RunEnd([ss EXCEPT !.current_page = "Relatorio"], save.files, NoScreen, TRUE,
                   rec(saved))
       ELSE IF ss.current_page = "Chat"
       THEN show_chat_page(ss, save.files, sidebar, trigger, csv_available, saved, e, t)
       ELSE show_report_page(ss, save.files, sidebar, trigger, csv_available, saved, e)

\* The session state the top of the script sets up, lines 413-427.
SessionStart ==
    [messages |-> <<>>, crew_instance |-> PyNone, report_generated |-> FALSE,
     last_report_time |-> PyNone, current_page |-> "Chat"]

\* A session whose script has yet to run for the first time.
GuiStart ==
    /\ session_state = SessionStart
    /\ uploaded_file = NoUpload
    /\ screen = NoScreen
    /\ rerun_requested = TRUE
    /\ run = NoRun

\* One run of the script on the present state.
ScriptRun(up, trigger, e) ==
    LET end == main(session_state, files, up, trigger, e, now) IN
    /\ session_state' = end.session_state
    /\ files' = end.files
    /\ screen' = end.screen
    /\ rerun_requested' = end.rerun
    /\ run' = end.run
    /\ uploaded_file' = up
    /\ UNCHANGED <<call, prev, now, api_vars>>

Firsts == IF glob_csv(files) = {} THEN {csv_path} ELSE glob_csv(files)
\* LlmResearcher() is called on the chat page while there is no crew, and
\* report.html is read on the report page.
Constructs ==
    IF session_state.crew_instance = PyNone /\ session_state.current_page = "Chat"
    THEN BOOLEAN ELSE {TRUE}
Htmls == IF session_state.current_page = "Chat" THEN {TRUE} ELSE BOOLEAN
NoFault == [at |-> "none", removed |-> glob_csv(files)]
\* The inputs of a run that renders a page.
Rendering(pressed, first, constructs, html) ==
    RunInputs(pressed, NoFault, first, constructs, FALSE, "returns", "", html)
OnScreen == ~rerun_requested /\ screen.page # "none"

\* The run st.rerun() asked for, and the first run of the session.
Rerun ==
    /\ rerun_requested
    /\ \E first \in Firsts, constructs \in Constructs, html \in Htmls :
         ScriptRun(uploaded_file, "rerun", Rendering(FALSE, first, constructs, html))

\* The Chat button as the last run drew it; drawn disabled in this run,
\* it may or may not report the click.
ClickChat ==
    /\ OnScreen /\ screen.chat_enabled
    /\ \E first \in Firsts, constructs \in Constructs, html \in Htmls :
         \E pressed \in (IF glob_csv(files) # {} THEN {TRUE} ELSE BOOLEAN) :
            ScriptRun(uploaded_file, "chat", Rendering(pressed, first, constructs, html))

ClickReport ==
    /\ OnScreen
    /\ \E first \in Firsts :
         ScriptRun(uploaded_file, "report", Rendering(TRUE, first, TRUE, TRUE))

\* The user puts a file in the uploader or takes it out.
SelectFile ==
    /\ OnScreen
    /\ \E up \in (UploadedFiles \cup {NoUpload}) \ {uploaded_file} :
         \E first \in Firsts, constructs \in Constructs, html \in Htmls :
            ScriptRun(up, "select", Rendering(FALSE, first, constructs, html))

ClickSave ==
    /\ OnScreen /\ uploaded_file # NoUpload
    /\ \E fault \in SaveFaults(files) :
         \E first \in Firsts, constructs \in Constructs, html \in Htmls :
            ScriptRun(uploaded_file, "save",
                      RunInputs(TRUE, fault, first, constructs, FALSE, "returns", "", html))

ClickClear ==
    /\ OnScreen /\ screen.page \in {"chat", "blocked"}
    /\ \E first \in Firsts :
         ScriptRun(uploaded_file, "clear", Rendering(TRUE, first, TRUE, TRUE))

\* The form of the chat page is submitted.
Submit ==
    /\ OnScreen /\ screen.page = "chat"
    /\ Len(session_state.messages) + 2 <= MaxMessages
    /\ \E first \in Firsts, constructs \in Constructs, html \in Htmls :
         \E user_input \in {"", "Analise a produtividade"},
            constructs_again \in BOOLEAN, kickoff \in {"returns", "kickoff failed"} :
            ScriptRun(uploaded_file, "submit",
                      RunInputs(TRUE, NoFault, first, constructs, constructs_again,
                                kickoff, user_input, html))

ClickRefresh ==
    /\ OnScreen /\ screen.refresh_button
    /\ \E first \in Firsts, html \in Htmls :
         ScriptRun(uploaded_file, "refresh", Rendering(TRUE, first, TRUE, html))

\* A file of the knowledge directory is put, replaced or removed from
\* outside the GUI.
KnowledgeChange ==
    /\ \E path \in FileNames : \E f \in KnowledgeFiles \ {files[path]} :
         files' = [files EXCEPT ![path] = f]
    /\ run' = [NoRun EXCEPT !.trigger = "files"]
    /\ UNCHANGED <<session_state, uploaded_file, screen, rerun_requested,
                   call, prev, now, api_vars>>

-----------------------------------------------------------------------------
(* The state machines *)

ToolsStart ==
    /\ files = [path \in FileNames |-> Absent]
    /\ call = NoCall
    /\ prev = None

ApiInit == ToolsStart /\ now = 0 /\ ApiStart /\ GuiStart

ApiNext == Request \/ Tick

ApiSpec == ApiInit /\ [][ApiNext]_vars

\* The GUI over a knowledge directory that changes under it; the tools are
\* not called.
GuiInit ==
    /\ files \in [FileNames -> KnowledgeFiles]
    /\ call = NoCall
    /\ prev = None
    /\ now = 0
    /\ ApiStart
    /\ GuiStart

GuiNext ==
    \/ Rerun \/ ClickChat \/ ClickReport \/ SelectFile \/ ClickSave
    \/ ClickClear \/ Submit \/ ClickRefresh \/ KnowledgeChange

GuiSpec == GuiInit /\ [][GuiNext]_vars

\* The two tools over the file they read.

\* The selectors of the two input schemas, and what else an agent may pass.
AnalysisTypes == {"overview", "productivity_stats", "department_analysis",
                  "time_trends", "correlation_analysis"}
DataFormats == {"columns", "sample", "full", "summary"}
AnalysisArgs == AnalysisTypes \cup {"Overview", "sample"}
DataFormatArgs == DataFormats \cup {"FULL", "overview"}

Init ==
    /\ \E d \in DatasetFiles, o \in OtherFiles :
          files = [path \in FileNames |-> IF path = csv_path THEN d ELSE o]
    /\ call = NoCall
    /\ prev = None
    /\ now = 0
    /\ ApiStart
    /\ GuiStart

\* The environment puts a file at a path, replaces it or removes it.
WriteFile ==
    /\ call = NoCall
    /\ \E path \in FileNames :
         \E f \in (IF path = csv_path THEN DatasetFiles ELSE OtherFiles) :
            /\ f # files[path]
            /\ files' = [files EXCEPT ![path] = f]
    /\ UNCHANGED <<call, prev, now, api_vars, gui_vars>>

\* RawDataAccessTool._run(data_format)
RawDataAccess ==
    /\ call = NoCall
    /\ \E data_format \in DataFormatArgs :
         call' = RawDataAccessTool_run(files, data_format)
    /\ files' = files_after_run(files)
    /\ UNCHANGED <<prev, now, api_vars, gui_vars>>

\* OptimizedCSVAnalysisTool._run(analysis_type)
OptimizedCSVAnalysis ==
    /\ call = NoCall
    /\ \E analysis_type \in AnalysisArgs :
         call' = OptimizedCSVAnalysisTool_run(files, analysis_type)
    /\ files' = files_after_run(files)
    /\ UNCHANGED <<prev, now, api_vars, gui_vars>>

\* The caller takes the text; the call's table is dropped.
Return ==
    /\ call # NoCall
    /\ prev' = call.df_in
    /\ call' = NoCall
    /\ UNCHANGED <<files, now, api_vars, gui_vars>>

Next == WriteFile \/ RawDataAccess \/ OptimizedCSVAnalysis \/ Return

Spec == Init /\ [][Next]_vars

-----------------------------------------------------------------------------
(* Properties *)

Called == call.tool # "none"
Loaded == ~call.df_in.isNone
TheFile == files[csv_path]

\* The dataset file is absent, or cannot be read, or cannot be parsed into
\* a table with a date column of dates.
FileCannotLoad ==
    \/ ~TheFile.exists
    \/ ~TheFile.parses
    \/ "date" \notin Range(TheFile.columns)
    \/ \E i \in 1..Len(TheFile.rows) :
          LET c == TheFile.rows[i].date IN
          ~isna(c) /\ ~(c.t = "str" /\ c.s \in DateTexts)

\* What the handler the call ran gave back: a text or an exception.
HandlerOut ==
    IF call.tool = "raw"
    THEN RawDataAccessTool_handler(call.ran[1], call.df_in).out
    ELSE OptimizedCSVAnalysisTool_handler(call.ran[1], call.df_in).out
ErrorPrefix == IF call.tool = "raw" THEN "Erro ao acessar dados: " ELSE "Erro na analise: "

\* C1: when the dataset file is absent or cannot be read or parsed, _run of
\* either tool returns the fixed load-error message, whatever the selector,
\* and does not raise.
C1_LoadFailureMessage ==
    (Called /\ FileCannotLoad) =>
        /\ call.outcome = "returned"
        /\ call.result = LoadErrorMessage
        /\ call.ran = <<>>
C1_Witness ==
    /\ call.tool = "analysis" /\ call.arg = "time_trends"
    /\ TheFile.exists /\ ~TheFile.parses
    /\ call.result = LoadErrorMessage

\* C2: once the dataset has loaded, _run of either tool returns a text for
\* every table and selector; a handler's exception becomes the tool's
\* error text carrying the exception's message, and none leaves _run.
C2_HandlerFailuresReturned ==
    (Called /\ Loaded) =>
        /\ call.outcome = "returned"
        /\ ~call.result.exc
        /\ Len(call.ran) = 1
        /\ IF HandlerOut.exc
           THEN call.result = [exc |-> FALSE, kind |-> "error", prefix |-> ErrorPrefix,
                               msg |-> exception_text(HandlerOut)]
           ELSE call.result = HandlerOut
C2_Witness ==
    /\ call.tool = "analysis" /\ call.arg = "correlation_analysis" /\ Loaded
    /\ call.outcome = "returned"
    /\ call.result.kind = "error"
    /\ call.result.msg = "\"['smv'] not in index\""

\* C3: a selector outside the known names gives exactly what the default
\* gives on the same file: analysis_type 'overview', data_format 'sample'.
C3_UnknownSelectorDefault ==
    /\ (call.tool = "analysis" /\ call.arg \notin AnalysisTypes) =>
          call.result = OptimizedCSVAnalysisTool_run(files, "overview").result
    /\ (call.tool = "raw" /\ call.arg \notin DataFormats) =>
          call.result = RawDataAccessTool_run(files, "sample").result
C3_Witness ==
    /\ call.tool = "analysis" /\ call.arg = "Overview"
    /\ call.result.kind = "overview" /\ call.result.total_records = 2

\* C4: every call reads the file as it is at the time of the call: the
\* table a call works on is the file's present content (dates converted),
\* and is None exactly when the present file does not load, whatever an
\* earlier call read.
C4_FreshLoad ==
    Called =>
        /\ call.df_in.isNone <=> FileCannotLoad
        /\ Loaded =>
             /\ call.df_in.columns = TheFile.columns
             /\ Len(call.df_in.rows) = Len(TheFile.rows)
             /\ \A i \in 1..Len(TheFile.rows) :
                  \A k \in 1..Len(TheFile.columns) :
                     LET c == TheFile.columns[k] IN
                     call.df_in.rows[i][c] =
                        IF c = "date" THEN to_datetime(TheFile.rows[i][c])
                        ELSE TheFile.rows[i][c]
C4_Witness ==
    /\ Called /\ Loaded
    /\ ~prev.isNone /\ prev # call.df_in
    /\ call.result.kind = "overview"

\* C5: no handler changes the table it is given: when a handler has
\* returned its text, the table has the columns and rows it had before.
C5_NoMutation ==
    (Called /\ Loaded /\ ~HandlerOut.exc) => call.df_out = call.df_in

\* The table has each of these columns, and a row that has both a date and
\* an actual productivity.
HasColumns(df, cols) == \A k \in 1..Len(cols) : HasColumn(df, cols[k])
HasDatedRow(df) ==
    \E i \in 1..len(df) : ~isna(df.rows[i].date) /\ ~isna(df.rows[i].actual_productivity)
IsReport == call.outcome = "returned" /\ call.result.kind = call.arg

\* C6 as stated: on a dataset with the listed columns and at least one row
\* (here even: a row with a date and a productivity), each of the five
\* analysis types returns its report.
C6_ListedColumnsSuffice ==
    (/\ call.tool = "analysis" /\ call.arg \in AnalysisTypes /\ Loaded
     /\ HasColumns(call.df_in, ListedColumns)
     /\ HasDatedRow(call.df_in))
    => IsReport

\* C6, amended: on a dataset that loads and has the listed columns and also
\* the quarter and smv columns, with at least one row that has both a date
\* and an actual productivity, each of the five analysis types returns its
\* report and no error message.
C6_AllColumnsSuffice ==
    (/\ call.tool = "analysis" /\ call.arg \in AnalysisTypes /\ Loaded
     /\ HasColumns(call.df_in, ListedColumns)
     /\ HasColumns(call.df_in, <<"quarter", "smv">>)
     /\ HasDatedRow(call.df_in))
    => IsReport
C6_Witness ==
    /\ call.tool = "analysis" /\ call.arg = "time_trends" /\ Loaded
    /\ HasColumns(call.df_in, AllColumns)
    /\ len(call.df_in) = 2
    /\ call.result.kind = "time_trends"

\* C7: an overview of a table with zero rows is an overview report that
\* states zero total records, not an error message.
C7_EmptyOverview ==
    (/\ call.tool = "analysis" /\ call.arg = "overview" /\ Loaded
     /\ HasColumns(call.df_in, AllColumns)
     /\ len(call.df_in) = 0)
    => (/\ call.outcome = "returned"
        /\ call.result.kind = "overview"
        /\ call.result.total_records = 0)

\* C8: the full dump is refused with the warning exactly when the table has
\* more than 500 rows; otherwise it has one line per row, for all rows, in
\* table order.
C8_FullDump ==
    (call.tool = "raw" /\ call.arg = "full" /\ Loaded) =>
        LET n == Len(TheFile.rows) IN
        /\ call.outcome = "returned"
        /\ (call.result.kind = "full_warning") <=> (n > 500)
        /\ (n <= 500) =>
             /\ call.result.kind = "full"
             /\ Len(call.result.lines) = n
             /\ \A i \in 1..n : call.result.lines[i] = row_line(call.df_in, i)
C8_Witness ==
    /\ call.tool = "raw" /\ call.arg = "full"
    /\ Len(TheFile.rows) = 500
    /\ call.result.kind = "full" /\ Len(call.result.lines) = 500

\* C9: the sample of a table of n rows has exactly min(50, n) row lines,
\* the first rows of the table in their order, and never more than 50.
C9_SampleBounded ==
    (call.tool = "raw" /\ call.arg = "sample" /\ Loaded) =>
        LET n == Len(TheFile.rows) IN
        /\ call.outcome = "returned"
        /\ call.result.kind = "sample"
        /\ Len(call.result.lines) = Min2(50, n)
        /\ Len(call.result.lines) <= 50
        /\ \A i \in 1..Len(call.result.lines) :
              call.result.lines[i] = row_line(call.df_in, i)
C9_Witness ==
    /\ call.tool = "raw" /\ call.arg = "sample"
    /\ Len(TheFile.rows) = 51
    /\ Len(call.result.lines) = 50

\* The handler that belongs to a recognized selector, and the kinds of text
\* that handler returns.
OwnHandler(arg) ==
    CASE arg = "overview" -> "_get_overview"
      [] arg = "productivity_stats" -> "_get_productivity_stats"
      [] arg = "department_analysis" -> "_get_department_analysis"
      [] arg = "time_trends" -> "_get_time_trends"
      [] arg = "correlation_analysis" -> "_get_correlation_analysis"
      [] arg = "columns" -> "_get_column_info"
      [] arg = "sample" -> "_get_sample_data"
      [] arg = "full" -> "_get_full_data"
      [] arg = "summary" -> "_get_basic_summary"
OwnKinds(arg) == IF arg = "full" THEN {"full", "full_warning", "error"} ELSE {arg, "error"}
Recognized ==
    \/ call.tool = "analysis" /\ call.arg \in AnalysisTypes
    \/ call.tool = "raw" /\ call.arg \in DataFormats

\* C10 as stated: every call with a recognized selector runs exactly one
\* handler, the selector's own.
C10_OneHandlerPerCall ==
    Recognized => call.ran = <<OwnHandler(call.arg)>>

\* C10, amended: a call with a recognized selector whose dataset loads runs
\* exactly one handler, the selector's own, and returns that handler's text;
\* a call whose dataset does not load runs no handler.
C10_OwnHandlerWhenLoaded ==
    Recognized =>
        /\ Loaded => /\ call.ran = <<OwnHandler(call.arg)>>
                     /\ call.result.kind \in OwnKinds(call.arg)
        /\ ~Loaded => call.ran = <<>>
C10_Witness ==
    /\ call.tool = "raw" /\ call.arg = "summary" /\ Loaded
    /\ call.ran = <<"_get_basic_summary">>
    /\ call.result.kind = "summary"

\* The fields the correlation report correlates with actual_productivity.
CorrelatedFields == {"targeted_productivity", "smv", "over_time", "idle_time",
                     "no_of_workers", "no_of_style_change", "incentive"}
\* The numeric columns of a table other than actual_productivity.
NumericFields(df) ==
    {c \in Range(df.columns) : is_numeric(df, c) /\ c # "actual_productivity"}
CorrelationReported ==
    /\ call.tool = "analysis" /\ call.arg = "correlation_analysis"
    /\ call.result.kind = "correlation_analysis"
\* |c| > tenths / 10 for the correlation c = cov / sqrt(vv)
Exceeds(c, tenths) == ~c.nan /\ 100 * c.cov * c.cov > tenths * tenths * c.vv
EntriesOf(var) ==
    {k \in DOMAIN call.result.strong_correlations :
        call.result.strong_correlations[k].var = var}
\* A field's line of the report is there iff |c| > 0.1 and carries the
\* strength and the direction of c.
Classified(var) ==
    LET c == corr(call.df_in, var, "actual_productivity")
        entry(k) == call.result.strong_correlations[k]
    IN /\ Cardinality(EntriesOf(var)) = (IF Exceeds(c, 1) THEN 1 ELSE 0)
       /\ \A k \in EntriesOf(var) :
            /\ entry(k).strength \in {"forte", "moderada", "fraca"}
            /\ entry(k).strength = "forte" <=> Exceeds(c, 5)
            /\ entry(k).strength = "moderada" <=> (Exceeds(c, 3) /\ ~Exceeds(c, 5))
            /\ entry(k).strength = "fraca" <=> (Exceeds(c, 1) /\ ~Exceeds(c, 3))
            /\ entry(k).direction \in {"positiva", "negativa"}
            /\ entry(k).direction = "positiva" <=> c.cov > 0

\* C11 as stated: in the correlation report every numeric field of the
\* table other than actual_productivity is listed iff |c| > 0.1, with the
\* strength and direction of c, and actual_productivity is never listed.
C11_NumericFieldsClassified ==
    CorrelationReported =>
        /\ \A var \in NumericFields(call.df_in) : Classified(var)
        /\ EntriesOf("actual_productivity") = {}

\* C11, amended: in the correlation report each of the seven fields
\* targeted_productivity, smv, over_time, idle_time, no_of_workers,
\* no_of_style_change and incentive is listed iff |c| > 0.1, as 'forte' iff
\* |c| > 0.5, 'moderada' iff 0.3 < |c| <= 0.5, 'fraca' iff 0.1 < |c| <= 0.3,
\* 'positiva' iff c > 0 and otherwise 'negativa'; no other field, and so
\* neither actual_productivity nor team, is listed.
C11_CorrelatedFieldsClassified ==
    CorrelationReported =>
        /\ \A var \in CorrelatedFields : Classified(var)
        /\ \A k \in DOMAIN call.result.strong_correlations :
              call.result.strong_correlations[k].var \in CorrelatedFields

\* A report with a line of every strength and both directions, and a
\* correlated field left out for a correlation of 0.03.
C11_Witness ==
    /\ CorrelationReported
    /\ \A st \in {"forte", "moderada", "fraca"} : \A dir \in {"positiva", "negativa"} :
          \E k \in DOMAIN call.result.strong_correlations :
             /\ call.result.strong_correlations[k].strength = st
             /\ call.result.strong_correlations[k].direction = dir
    /\ EntriesOf("incentive") = {}
    /\ ~corr(call.df_in, "incentive", "actual_productivity").nan

\* C12: a call of either tool, with any argument, leaves every file as it
\* was: none is created, changed or deleted.
C12_ReadOnly ==
    [][(call = NoCall /\ call' # NoCall) => files' = files]_vars

\* A call has returned with the dataset file and another file in place.
C12_Witness ==
    /\ Called /\ Loaded
    /\ files[csv_path].exists /\ files[other_path].exists
    /\ call.df_out # call.df_in

ResponseTo(route) == response.route = route
WithoutTimestamp(body) == [body EXCEPT !.timestamp = ""]
Timestamped == {<<"GET", "/">>, <<"GET", "/health">>}

\* C13 as stated: each of the four routes answers 200 and has returned
\* one and the same body on all its calls so far.
C13_StaticJson ==
    /\ response # NoResponse => response.status_code = 200
    /\ \A route \in Routes : Cardinality(bodies[route]) <= 1

\* C13, amended: each route answers 200; GET /llm/models and POST /llm/chat
\* return one and the same body on all calls; the bodies of GET / and GET
\* /health are the same on all calls but for their timestamp field, which
\* is the time of the call.
C13_StaticButTimestamp ==
    /\ response # NoResponse => response.status_code = 200
    /\ \A route \in Routes \ Timestamped : Cardinality(bodies[route]) <= 1
    /\ \A route \in Timestamped : \A b1, b2 \in bodies[route] :
          WithoutTimestamp(b1) = WithoutTimestamp(b2)
    /\ (response # NoResponse /\ response.route \in Timestamped) =>
          response.body.timestamp = isoformat(response.at)

\* Every route has been called, the timestamped ones at two times, the
\* model list before and after them.
C13_Witness ==
    /\ \A route \in Timestamped : Cardinality(bodies[route]) >= 2
    /\ \A route \in Routes \ Timestamped : Cardinality(bodies[route]) = 1
    /\ ResponseTo(<<"GET", "/llm/models">>)
    /\ response.at = MaxClock

CsvAvailable == glob_csv(files) # {}
\* The latest step was a run of the script.
ScriptRan == run.trigger \notin {"none", "files"}
AtRest == ScriptRan /\ ~rerun_requested
Pages == {"Chat", "Relatorio"}

\* C14 as stated: in every state the conversation and the form are on the
\* screen only if the knowledge directory holds a CSV, the page is 'Chat'
\* only if it does, and the page is 'Chat' or 'Relatorio'.
C14_ChatOnlyWithCsv ==
    /\ screen.page = "chat" => CsvAvailable
    /\ (~rerun_requested /\ session_state.current_page = "Chat") => CsvAvailable
    /\ session_state.current_page \in Pages

\* C14, amended: a run of the script draws the conversation and the form
\* only if the knowledge directory holds a CSV as it draws them; a run
\* that finds the page 'Chat' and no CSV when it starts sets the page to
\* 'Relatorio' and runs again, so the script comes to rest on 'Chat' only
\* if a CSV was there when the run started; the page is always 'Chat' or
\* 'Relatorio'.
C14_ChatDrawnWithCsv ==
    /\ (ScriptRan /\ screen.page = "chat") => CsvAvailable
    /\ (AtRest /\ session_state.current_page = "Chat") => run.csv_available
    /\ session_state.current_page \in Pages

\* The chat was used, the CSV went away, and the run that found it gone
\* changed the page.
C14_Witness ==
    /\ run.trigger = "rerun" /\ rerun_requested
    /\ ~run.csv_available /\ ~CsvAvailable
    /\ session_state.current_page = "Relatorio"
    /\ session_state.messages # <<>>

\* The knowledge directory with a file's data as the dataset file.
AsDataset(data) == [path \in FileNames |-> IF path = csv_path THEN data ELSE Absent]

\* C15: after save_uploaded_csv has succeeded for an uploaded file, of
\* any name, that the tools can read, _load_data of the tools gives the
\* table of that file.
C15_UploadIsAnalysed ==
    (run.saved = "ok" /\ ~load_data(AsDataset(uploaded_file.data)).isNone) =>
        load_data(files) = load_data(AsDataset(uploaded_file.data))

C17_FailedSaveKeepsFiles ==
    [][run'.saved = "failed" => files' = files]_vars

Replies == {SuccessText, AnalysisErrorText("kickoff failed"), InitErrorText}
WellFormed(messages) ==
    /\ Len(messages) % 2 = 0
    /\ \A i \in DOMAIN messages :
         messages[i].role = (IF i % 2 = 1 THEN "user" ELSE "assistant")
    /\ \A i \in DOMAIN messages :
         IF i % 2 = 1 THEN messages[i].content # "" ELSE messages[i].content \in Replies
\* A step leaves the history alone, or is a clear that empties it, or is
\* a submission that appends a user message and a reply.
HistoryStep ==
    LET old == session_state.messages
        new == session_state'.messages
    IN /\ \/ new = old
          \/ run'.trigger = "clear" /\ new = <<>>
          \/ /\ run'.trigger = "submit"
             /\ Len(new) = Len(old) + 2
             /\ SubSeq(new, 1, Len(old)) = old
             /\ new[Len(old) + 1].role = "user"
             /\ new[Len(old) + 2].role = "assistant"
       /\ run'.trigger = "clear" => new = <<>>

\* C18: the history is a list of pairs, a user message with a non-empty
\* text and the assistant's reply (the success text, the analysis error or
\* the initialization error); every step leaves it alone, appends one such
\* pair on a submission, or empties it on a clear.
C18_HistoryWellFormed ==
    []WellFormed(session_state.messages) /\ [][HistoryStep]_vars

\* Two submissions, one answered with the initialization error and one
\* with the success text.
C18_Witness ==
    /\ Len(session_state.messages) = 4
    /\ session_state.messages[2].content = InitErrorText
    /\ session_state.messages[4].content = SuccessText

LastReply == session_state.messages[Len(session_state.messages)]
ReportStep ==
    /\ session_state.report_generated => session_state'.report_generated
    /\ (~session_state.report_generated /\ session_state'.report_generated) =>
          run'.kickoff = "returned"
    /\ (run'.kickoff = "raised" /\ run' # run) =>
          /\ session_state'.report_generated = session_state.report_generated
          /\ session_state'.last_report_time = session_state.last_report_time

\* C19: report_generated is True iff last_report_time is not None; it
\* becomes True only in a run whose kickoff returned and never becomes
\* False again; a run whose kickoff raised leaves both as they were and
\* replies with the error text.
C19_ReportFlag ==
    /\ [](session_state.report_generated <=> session_state.last_report_time # PyNone)
    /\ [](run.kickoff = "raised" => LastReply.content = AnalysisErrorText("kickoff failed"))
    /\ [][ReportStep]_vars

\* A kickoff raised after a report had been generated.
C19_Witness ==
    /\ run.kickoff = "raised"
    /\ session_state.report_generated
    /\ session_state.last_report_time = now_text(now)

\* C20: a crew instance, once there, is never replaced; every call of
\* initialize_crew returns True iff there is an instance when it returns,
\* and run_crew_analysis is called only with an instance.
C20_CrewOnce ==
    /\ [](\A i \in DOMAIN run.init_calls :
            run.init_calls[i].result <=> run.init_calls[i].instance # PyNone)
    /\ [](run.kickoff # "none" => run.kickoff_on # PyNone)
    /\ [](run.kickoff # "none" => run.kickoff_on = session_state.crew_instance)
    /\ [][session_state.crew_instance # PyNone =>
            session_state'.crew_instance = session_state.crew_instance]_vars

\* A construction failed and the next call, in the same run, built the
\* crew the kickoff was made on.
C20_Witness ==
    /\ Len(run.init_calls) = 2
    /\ ~run.init_calls[1].result
    /\ run.init_calls[2].result
    /\ run.kickoff = "returned"

====
